---------------------------- MODULE Spec2Model ----------------------------
(***************************************************************************)
(* IndicatorHandler (src/src/handler/indicator_handler.rs): a Kapacitor    *)
(* stream UDF that keeps a per-ticker EMA or SMA and emits every point     *)
(* augmented with the indicator value.                                     *)
(*                                                                         *)
(* State: the handler's fields (options, data.states), the shared          *)
(* Arc<Mutex<Sender<Response>>> (mutex owner, channel queue, closed flag), *)
(* the position of the handler inside point() or stop() (an async fn runs  *)
(* until an await is not ready: point() suspends in lock() when another    *)
(* holder of the Arc has the mutex and in send() on a full channel, the    *)
(* guard held; stop() suspends in lock()), the result of the last          *)
(* completed handler call, and the position of another holder of the Arc.  *)
(*                                                                         *)
(* Specifications: Spec (the handler called sequentially), Fold (a stream  *)
(* of points with every input and output recorded), Persist (a host that   *)
(* keeps snapshots for later restores), Emit (every call, with what the    *)
(* host receives recorded) and Shared (the sender shared with another      *)
(* holder).                                                                *)
(*                                                                         *)
(* f64 values are modelled as exact rationals plus NaN and the two         *)
(* infinities; rounding and signed zeros are not modelled.                 *)
(***************************************************************************)
EXTENDS Integers, Sequences, FiniteSets, TLC

\* ------------------------------------------------------------------ bounds

\* Largest number of observations point() folds into one table (the sum of
\* the counts of its keys); in Emit, where init and restore reset the
\* table, the largest number of observations recorded.
MaxCount == 2

\* ------------------------------------------------------------------- f64

RECURSIVE Gcd(_, _)
Gcd(a, b) == IF b = 0 THEN a ELSE Gcd(b, a % b)

Abs(x) == IF x < 0 THEN -x ELSE x

\* A finite value n/d in lowest terms with d > 0.
Fin(n, d) ==
    LET s == IF d < 0 THEN -1 ELSE 1
        g == Gcd(Abs(n), Abs(d))
    IN  [k |-> "fin", n |-> (s * n) \div g, d |-> (s * d) \div g]

NaN == [k |-> "nan", n |-> 0, d |-> 1]

\* +inf (s = 1) or -inf (s = -1).
Inf(s) == [k |-> "inf", n |-> s, d |-> 1]

IsFinite(x) == x.k = "fin"

Sign(x) == IF x.n > 0 THEN 1 ELSE IF x.n < 0 THEN -1 ELSE 0

\* IEEE-754 multiplication: NaN is absorbing, 0 * inf is NaN.
FMul(a, b) ==
    IF a.k = "nan" \/ b.k = "nan" THEN NaN
    ELSE IF a.k = "inf" \/ b.k = "inf"
         THEN IF Sign(a) * Sign(b) = 0 THEN NaN ELSE Inf(Sign(a) * Sign(b))
         ELSE Fin(a.n * b.n, a.d * b.d)

\* IEEE-754 addition: NaN is absorbing, inf + (-inf) is NaN.
FAdd(a, b) ==
    IF a.k = "nan" \/ b.k = "nan" THEN NaN
    ELSE IF a.k = "inf" /\ b.k = "inf"
         THEN IF a.n = b.n THEN a ELSE NaN
         ELSE IF a.k = "inf" THEN a
         ELSE IF b.k = "inf" THEN b
         ELSE Fin(a.n * b.d + b.n * a.d, a.d * b.d)

\* a / p for an integer p, as `sum / period as f64`; x / 0 is NaN for x = 0
\* or NaN, and an infinity otherwise.
FDivInt(a, p) ==
    IF a.k = "nan" THEN NaN
    ELSE IF p = 0
         THEN IF Sign(a) = 0 THEN NaN ELSE Inf(Sign(a))
         ELSE IF a.k = "inf" THEN a
         ELSE Fin(a.n, a.d * p)

\* values.iter().sum::<f64>(): a left fold from 0.0.
RECURSIVE FSum(_)
FSum(s) == IF s = <<>> THEN Fin(0, 1)
           ELSE FAdd(FSum(SubSeq(s, 1, Len(s) - 1)), s[Len(s)])

\* ------------------------------------------------------------ data model

Keys == {"X", "Y"}

EMA == "EMA"
SMA == "SMA"

\* The periods configurations carry.
Periods == {1, 2}

\* The f64 inputs points carry.
Inputs == {Fin(1, 1), Fin(3, 1), NaN}

\* Option<f64>
None == <<>>
Some(x) == <<x>>

\* IndicatorState { current_value: None, values: Vec::new(), count: 0 }
NewState == [current_value |-> None, values |-> <<>>, count |-> 0]

\* HashMap::new()
EmptyStates == [k \in {} |-> NewState]

\* IndicatorOptions
Options(p, ty) ==
    [period |-> p, indicator_type |-> ty, ticker_field |-> "t",
     field |-> "price", as_field |-> "ind"]

ValidOptions == {Options(p, ty) : p \in Periods, ty \in {EMA, SMA}}

\* Point: a tag map and a map of double fields (either may lack the entry the
\* options name).
NoTags == [n \in {} |-> "X"]
Tag(name, key) == [n \in {name} |-> key]
NoFields == [n \in {} |-> NaN]
Field(name, v) == [n \in {name} |-> v]

\* Every key with every input; and points without the "t" tag, or without
\* the "price" field, or both.
Points ==
    {[tags |-> Tag("t", k), fields_double |-> Field("price", v)] :
        k \in Keys, v \in Inputs}
    \cup {[tags |-> Tag("s", "X"), fields_double |-> Field("price", Fin(1, 1))],
          [tags |-> NoTags, fields_double |-> NoFields],
          [tags |-> Tag("t", "Y"), fields_double |-> Field("volume", Fin(1, 1))]}

\* --------------------------------------------------- persistence (JSON)

\* A JSON value in a float position: null or a number.
JNull == [t |-> "null", v |-> NaN]
JNum(x) == [t |-> "num", v |-> x]

\* serde_json writes a finite f64 as a number and NaN or an infinity as null.
EncodeF64(x) == IF IsFinite(x) THEN JNum(x) ELSE JNull

\* Option<f64>: None is null, Some(x) is x.
EncodeOption(o) == IF o = None THEN JNull ELSE EncodeF64(o[1])

EncodeState(s) ==
    [current_value |-> EncodeOption(s.current_value),
     values |-> [i \in 1..Len(s.values) |-> EncodeF64(s.values[i])],
     count |-> s.count]

\* serde_json::to_vec(&self.data): {"states": {key: {...}, ...}}
Encode(st) == [wf |-> TRUE, states |-> [k \in DOMAIN st |-> EncodeState(st[k])]]

\* Bytes that are not a JSON document of IndicatorData.
Malformed == [wf |-> FALSE, states |-> [k \in {} |-> EncodeState(NewState)]]

\* A table an earlier run of the handler left with the host: X after the
\* SMA observations 1, 3 under period 2.
SavedTables ==
    {[k \in {"X"} |-> [current_value |-> None,
                       values |-> <<Fin(1, 1), Fin(3, 1)>>, count |-> 2]]}

\* null is accepted for an Option<f64> and rejected for an f64.
DecodeOption(j) == IF j.t = "null" THEN None ELSE Some(j.v)

DecodeState(j) ==
    [current_value |-> DecodeOption(j.current_value),
     values |-> [i \in 1..Len(j.values) |-> j.values[i].v],
     count |-> j.count]

\* serde_json::from_slice::<IndicatorData>: Ok(table) or Err(reason).
Decode(blob) ==
    IF ~blob.wf
    THEN [ok |-> FALSE, states |-> EmptyStates, error |-> "expected value"]
    ELSE IF \E k \in DOMAIN blob.states :
               \E i \in 1..Len(blob.states[k].values) :
                   blob.states[k].values[i].t = "null"
         THEN [ok |-> FALSE, states |-> EmptyStates,
               error |-> "invalid type: null, expected f64"]
         ELSE [ok |-> TRUE,
               states |-> [k \in DOMAIN blob.states |-> DecodeState(blob.states[k])],
               error |-> ""]

\* --------------------------------------------------------- configuration

\* The option list of an InitRequest, already keyed by option name.
Raw(p, ty, tf) ==
    [period |-> p, type |-> ty, ticker_field |-> tf,
     field |-> "price", as_field |-> "ind"]

\* Every period with every type; and requests with period 0, with an
\* unknown type.
RawOptions ==
    {Raw(p, ty, "t") : p \in Periods, ty \in {"EMA", "SMA"}}
    \cup {Raw(0, "SMA", "t"), Raw(1, "WMA", "t")}

\* IndicatorOptions::from_proto_options: Ok(options) or Err(reason).
from_proto_options(raw) ==
    IF raw.period < 1
    THEN [ok |-> FALSE, options |-> raw, error |-> "period must be a positive integer"]
    ELSE IF raw.type \notin {EMA, SMA}
    THEN [ok |-> FALSE, options |-> raw, error |-> "unknown indicator type"]
    ELSE IF raw.ticker_field = "" \/ raw.field = "" \/ raw.as_field = ""
    THEN [ok |-> FALSE, options |-> raw, error |-> "empty field name"]
    ELSE [ok |-> TRUE,
          options |-> [period |-> raw.period, indicator_type |-> raw.type,
                       ticker_field |-> raw.ticker_field, field |-> raw.field,
                       as_field |-> raw.as_field],
          error |-> ""]

\* ------------------------------------------------------------ indicators

\* entry(ticker).or_insert(IndicatorState { None, [], 0 })
Entry(st, ticker) == IF ticker \in DOMAIN st THEN st[ticker] ELSE NewState

\* The table with every entry, ticker's included, set to s: one state shared
\* by all keys.
put_all(st, ticker, s) == [k \in DOMAIN st \cup {ticker} |-> s]

\* The table with ticker's entry set to s.
Put(st, ticker, s) ==
    [k \in DOMAIN st \cup {ticker} |-> IF k = ticker THEN s ELSE st[k]]

\* calculate_ema with the weights exchanged: alpha on the previous average.
calculate_ema_weights_swapped(st, opts, ticker, value) ==
    LET state == Entry(st, ticker)
        alpha == Fin(2, opts.period + 1)
        new_ema == IF state.current_value # None
                   THEN FAdd(FMul(alpha, state.current_value[1]),
                             FMul(FAdd(Fin(1, 1), FMul(Fin(-1, 1), alpha)),
                                  value))
                   ELSE value
    IN  [states |-> Put(st, ticker,
                        [state EXCEPT !.current_value = Some(new_ema),
                                      !.count = @ + 1]),
         out |-> new_ema]

\* calculate_ema: the table afterwards and the value returned.
calculate_ema(st, opts, ticker, value) ==
    LET state == Entry(st, ticker)
        alpha == Fin(2, opts.period + 1)
        new_ema == IF state.current_value # None
                   THEN FAdd(FMul(alpha, value),
                             FMul(FAdd(Fin(1, 1), FMul(Fin(-1, 1), alpha)),
                                  state.current_value[1]))
                   ELSE value
    IN  [states |-> Put(st, ticker,
                        [state EXCEPT !.current_value = Some(new_ema),
                                      !.count = @ + 1]),
         out |-> new_ema]

\* calculate_sma returning the mean of the window while it fills as well (a
\* true partial average).
calculate_sma_partial_mean(st, opts, ticker, value) ==
    LET state == Entry(st, ticker)
        pushed == Append(state.values, value)
        values == IF Len(pushed) > opts.period THEN Tail(pushed) ELSE pushed
    IN  [states |-> Put(st, ticker,
                        [state EXCEPT !.values = values, !.count = @ + 1]),
         out |-> FDivInt(FSum(values), Len(values))]

\* calculate_sma evicting the value just pushed (values.pop()) instead of the
\* oldest.
calculate_sma_evict_newest(st, opts, ticker, value) ==
    LET state == Entry(st, ticker)
        pushed == Append(state.values, value)
        values == IF Len(pushed) > opts.period
                  THEN SubSeq(pushed, 1, Len(pushed) - 1) ELSE pushed
    IN  [states |-> Put(st, ticker,
                        [state EXCEPT !.values = values, !.count = @ + 1]),
         out |-> IF Len(values) = opts.period
                 THEN FDivInt(FSum(values), opts.period)
                 ELSE value]

\* calculate_sma: the table afterwards and the value returned.
calculate_sma(st, opts, ticker, value) ==
    LET state == Entry(st, ticker)
        pushed == Append(state.values, value)
        values == IF Len(pushed) > opts.period THEN Tail(pushed) ELSE pushed
    IN  [states |-> Put(st, ticker,
                        [state EXCEPT !.values = values, !.count = @ + 1]),
         out |-> IF Len(values) = opts.period
                 THEN FDivInt(FSum(values), opts.period)
                 ELSE value]

calculate_indicator(st, opts, ticker, value) ==
    IF opts.indicator_type = EMA
    THEN calculate_ema(st, opts, ticker, value)
    ELSE calculate_sma(st, opts, ticker, value)

RECURSIVE SumCount(_, _)
SumCount(st, ks) ==
    IF ks = {} THEN 0
    ELSE LET k == CHOOSE x \in ks : TRUE
         IN  st[k].count + SumCount(st, ks \ {k})

\* The observations folded into the table.
TotalCount(st) == SumCount(st, DOMAIN st)

\* p.clone() with fields_double.insert(as_field, indicator_value)
NewPoint(p, opts, indicator_value) ==
    [tags |-> p.tags,
     fields_double |->
        [n \in DOMAIN p.fields_double \cup {opts.as_field} |->
            IF n = opts.as_field THEN indicator_value ELSE p.fields_double[n]]]

VARIABLES
    options,    \* self.options
    states,     \* self.data.states
    mutex,      \* owner of the Mutex around the Sender:
                \*   "free" | "handler" | "other"
    chan,       \* Responses queued in the channel, oldest first (one slot)
    closed,     \* the channel has been closed
    pc,         \* where the handler is: "idle" | "lock" (point() suspended in
                \*   lock()) | "send" (point() suspended in send(), holding
                \*   the guard) | "stop" (stop() suspended in lock())
    pending,    \* the Response a suspended point() holds (<<>> when none)
    ret,        \* result of the last completed handler call
    configured, \* history: some init() has succeeded on this instance
    other,      \* another task holding a clone of the Arc: where it is
                \*   ("idle" | "lock" | "send") and how its last send ended
    kept,       \* the snapshot blob the host keeps for a later restore
    hist,       \* history: the observations folded into the table, in order
    delivered   \* history: the Responses the host has received, in order

vars == <<options, states, mutex, chan, closed, pc, pending, ret, configured,
          other, kept, hist, delivered>>

\* The channel behind `responses` is created by the host; it is modelled
\* with a single slot, the smallest async_std::channel::bounded allows.
HasRoom(ch) == ch = <<>>

\* What a handler call returned: Ok or Err with its reason, and the blob of a
\* SnapshotResponse (<<>> for every other call).
Ret(op, ok, err) == [op |-> op, ok |-> ok, err |-> err, snapshot |-> <<>>]

\* IndicatorHandler::new: the options passed in, an empty table.
new(opts) ==
    /\ options = opts
    /\ states = EmptyStates
    /\ mutex = "free"
    /\ chan = <<>>
    /\ closed = FALSE
    /\ pc = "idle"
    /\ pending = <<>>
    /\ ret = Ret("new", TRUE, "")
    /\ configured = FALSE
    /\ other = [pc |-> "idle", ret |-> "none"]
    /\ kept = <<>>
    /\ hist = <<>>
    /\ delivered = <<>>

Init == \E opts \in ValidOptions : new(opts)

\* The controller state of the design: Unconfigured -> Configured -> Stopped.
Lifecycle ==
    IF closed THEN "Stopped"
    ELSE IF configured THEN "Configured" ELSE "Unconfigured"

\* ---------------------------------------------------------------- handler

\* info(): the capability declaration; nothing changes.
info ==
    /\ pc = "idle"
    /\ ret' = Ret("info", TRUE, "")
    /\ UNCHANGED <<options, states, mutex, chan, closed, pc, pending, configured>>

\* init with the table cleared before the options are resolved: a failed
\* request loses the table.
init_clear_first(raw) ==
    /\ pc = "idle"
    /\ states' = EmptyStates
    /\ LET r == from_proto_options(raw)
       IN  IF r.ok
           THEN /\ options' = r.options
                /\ ret' = Ret("init", TRUE, "")
                /\ configured' = TRUE
           ELSE /\ ret' = Ret("init", FALSE, r.error)
                /\ UNCHANGED <<options, configured>>
    /\ UNCHANGED <<mutex, chan, closed, pc, pending>>

\* init with the Ok arm swapping the options in and keeping the table.
init_keep_states(raw) ==
    /\ pc = "idle"
    /\ LET r == from_proto_options(raw)
       IN  IF r.ok
           THEN /\ options' = r.options
                /\ ret' = Ret("init", TRUE, "")
                /\ configured' = TRUE
                /\ UNCHANGED states
           ELSE /\ ret' = Ret("init", FALSE, r.error)
                /\ UNCHANGED <<options, states, configured>>
    /\ UNCHANGED <<mutex, chan, closed, pc, pending>>

\* init(r): on Ok swap the options in and clear the table, on Err report it.
init(raw) ==
    /\ pc = "idle"
    /\ LET r == from_proto_options(raw)
       IN  IF r.ok
           THEN /\ options' = r.options
                /\ states' = EmptyStates
                /\ ret' = Ret("init", TRUE, "")
                /\ configured' = TRUE
           ELSE /\ ret' = Ret("init", FALSE, r.error)
                /\ UNCHANGED <<options, states, configured>>
    /\ UNCHANGED <<mutex, chan, closed, pc, pending>>

\* snapshot(): the table serialized into the response.
snapshot ==
    /\ pc = "idle"
    /\ ret' = [Ret("snapshot", TRUE, "") EXCEPT !.snapshot = <<Encode(states)>>]
    /\ UNCHANGED <<options, states, mutex, chan, closed, pc, pending, configured>>

\* restore with the decoded entries inserted into the table that is there
\* (extend) instead of replacing it.
restore_extend(blob) ==
    /\ pc = "idle"
    /\ LET r == Decode(blob)
       IN  IF r.ok
           THEN /\ states' = [k \in DOMAIN states \cup DOMAIN r.states |->
                                IF k \in DOMAIN r.states
                                THEN r.states[k] ELSE states[k]]
                /\ ret' = Ret("restore", TRUE, "")
           ELSE /\ ret' = Ret("restore", FALSE, r.error)
                /\ UNCHANGED states
    /\ UNCHANGED <<options, mutex, chan, closed, pc, pending, configured>>

\* restore(req): on Ok replace self.data, on Err report it.
restore(blob) ==
    /\ pc = "idle"
    /\ LET r == Decode(blob)
       IN  IF r.ok
           THEN /\ states' = r.states
                /\ ret' = Ret("restore", TRUE, "")
           ELSE /\ ret' = Ret("restore", FALSE, r.error)
                /\ UNCHANGED states
    /\ UNCHANGED <<options, mutex, chan, closed, pc, pending, configured>>

\* begin_batch accepting the batch: Ok(()).
begin_batch_ok ==
    /\ pc = "idle"
    /\ ret' = Ret("begin_batch", TRUE, "")
    /\ UNCHANGED <<options, states, mutex, chan, closed, pc, pending, configured>>

\* begin_batch: always Err(Unsupported).
begin_batch ==
    /\ pc = "idle"
    /\ ret' = Ret("begin_batch", FALSE, "Unsupported")
    /\ UNCHANGED <<options, states, mutex, chan, closed, pc, pending, configured>>

\* end_batch: always Ok(()).
end_batch ==
    /\ pc = "idle"
    /\ ret' = Ret("end_batch", TRUE, "")
    /\ UNCHANGED <<options, states, mutex, chan, closed, pc, pending, configured>>

\* send_response returning Ok(()) on a channel with room without queuing the
\* response.
send_response_unqueued(response) ==
    IF closed
    THEN /\ ret' = Ret("point", FALSE, "ResponseSendError")
         /\ mutex' = "free"
         /\ pc' = "idle"
         /\ pending' = <<>>
         /\ UNCHANGED chan
    ELSE IF HasRoom(chan)
    THEN /\ UNCHANGED chan
         /\ ret' = Ret("point", TRUE, "")
         /\ mutex' = "free"
         /\ pc' = "idle"
         /\ pending' = <<>>
    ELSE /\ mutex' = "handler"
         /\ pc' = "send"
         /\ pending' = <<response>>
         /\ UNCHANGED <<chan, ret>>

\* send_response from the moment the guard is held: a send on a closed
\* channel fails, a send on a channel with room queues the response, and in
\* both cases the guard is dropped and point() returns; a send on a full
\* channel stays suspended with the guard held.
send_response(response) ==
    IF closed
    THEN /\ ret' = Ret("point", FALSE, "ResponseSendError")
         /\ mutex' = "free"
         /\ pc' = "idle"
         /\ pending' = <<>>
         /\ UNCHANGED chan
    ELSE IF HasRoom(chan)
    THEN /\ chan' = Append(chan, response)
         /\ ret' = Ret("point", TRUE, "")
         /\ mutex' = "free"
         /\ pc' = "idle"
         /\ pending' = <<>>
    ELSE /\ mutex' = "handler"
         /\ pc' = "send"
         /\ pending' = <<response>>
         /\ UNCHANGED <<chan, ret>>

\* self.responses.lock().await and then the send: the lock is taken at once
\* when the mutex is free; when another task holds it, point() suspends in
\* lock() with the response built.
lock_and_send(response) ==
    IF mutex = "free"
    THEN send_response(response)
    ELSE /\ pc' = "lock"
         /\ pending' = <<response>>
         /\ UNCHANGED <<mutex, chan, ret>>

\* The tag lookup with a missing tag read as the empty ticker
\* (unwrap_or_default) instead of an error.
get_ticker_or_default(p, opts) ==
    IF opts.ticker_field \in DOMAIN p.tags
    THEN Some(p.tags[opts.ticker_field]) ELSE Some("")

\* p.tags.get(&self.options.ticker_field)
get_ticker(p, opts) ==
    IF opts.ticker_field \in DOMAIN p.tags
    THEN Some(p.tags[opts.ticker_field]) ELSE None

\* p.fields_double.get(&self.options.field)
get_value(p, opts) ==
    IF opts.field \in DOMAIN p.fields_double
    THEN Some(p.fields_double[opts.field]) ELSE None

\* point with the entry of the ticker created (entry().or_insert()) before
\* the field is looked up.
point_entry_first(p) ==
    /\ pc = "idle"
    /\ LET ticker == get_ticker(p, options)
           value == get_value(p, options)
       IN  IF ticker = None
           THEN /\ ret' = Ret("point", FALSE, "MissingTickerField")
                /\ UNCHANGED <<states, mutex, chan, pc, pending>>
           ELSE IF value = None
           THEN /\ ret' = Ret("point", FALSE, "InvalidFieldType")
                /\ states' = Put(states, ticker[1], Entry(states, ticker[1]))
                /\ UNCHANGED <<mutex, chan, pc, pending>>
           ELSE LET r == calculate_indicator(states, options, ticker[1], value[1])
                IN  /\ states' = r.states
                    /\ lock_and_send(NewPoint(p, options, r.out))
    /\ UNCHANGED <<options, closed, configured>>

\* point with a new entry stored for the ticker (insert(ticker,
\* IndicatorState { None, [], 0 })) before the field is looked up.
point_insert_first(p) ==
    /\ pc = "idle"
    /\ LET ticker == get_ticker(p, options)
           value == get_value(p, options)
       IN  IF ticker = None
           THEN /\ ret' = Ret("point", FALSE, "MissingTickerField")
                /\ UNCHANGED <<states, mutex, chan, pc, pending>>
           ELSE IF value = None
           THEN /\ ret' = Ret("point", FALSE, "InvalidFieldType")
                /\ states' = Put(states, ticker[1], NewState)
                /\ UNCHANGED <<mutex, chan, pc, pending>>
           ELSE LET r == calculate_indicator(states, options, ticker[1], value[1])
                IN  /\ states' = r.states
                    /\ lock_and_send(NewPoint(p, options, r.out))
    /\ UNCHANGED <<options, closed, configured>>

\* point with the table updated after the send has returned: a point whose
\* send or lock suspends leaves with the table not yet updated.
point_update_after_send(p) ==
    /\ pc = "idle"
    /\ LET ticker == get_ticker(p, options)
           value == get_value(p, options)
       IN  IF ticker = None
           THEN /\ ret' = Ret("point", FALSE, "MissingTickerField")
                /\ UNCHANGED <<states, mutex, chan, pc, pending>>
           ELSE IF value = None
           THEN /\ ret' = Ret("point", FALSE, "InvalidFieldType")
                /\ UNCHANGED <<states, mutex, chan, pc, pending>>
           ELSE LET r == calculate_indicator(states, options, ticker[1], value[1])
                IN  /\ lock_and_send(NewPoint(p, options, r.out))
                    /\ states' = IF pc' = "idle" THEN r.states ELSE states
    /\ UNCHANGED <<options, closed, configured>>

\* point with the table put back when the send fails on a closed channel.
point_rollback(p) ==
    /\ pc = "idle"
    /\ LET ticker == get_ticker(p, options)
           value == get_value(p, options)
       IN  IF ticker = None
           THEN /\ ret' = Ret("point", FALSE, "MissingTickerField")
                /\ UNCHANGED <<states, mutex, chan, pc, pending>>
           ELSE IF value = None
           THEN /\ ret' = Ret("point", FALSE, "InvalidFieldType")
                /\ UNCHANGED <<states, mutex, chan, pc, pending>>
           ELSE LET r == calculate_indicator(states, options, ticker[1], value[1])
                IN  /\ states' = IF closed THEN states ELSE r.states
                    /\ lock_and_send(NewPoint(p, options, r.out))
    /\ UNCHANGED <<options, closed, configured>>

\* point(p): the two lookups, calculate_indicator, the new point, and the
\* send.
point(p) ==
    /\ pc = "idle"
    /\ LET ticker == get_ticker(p, options)
           value == get_value(p, options)
       IN  IF ticker = None
           THEN /\ ret' = Ret("point", FALSE, "MissingTickerField")
                /\ UNCHANGED <<states, mutex, chan, pc, pending>>
           ELSE IF value = None
           THEN /\ ret' = Ret("point", FALSE, "InvalidFieldType")
                /\ UNCHANGED <<states, mutex, chan, pc, pending>>
           ELSE LET r == calculate_indicator(states, options, ticker[1], value[1])
                IN  /\ states' = r.states
                    /\ lock_and_send(NewPoint(p, options, r.out))
    /\ UNCHANGED <<options, closed, configured>>

\* The suspended lock() of point() is woken: the mutex is free, and the send
\* follows.
send_response_locked ==
    /\ pc = "lock"
    /\ mutex = "free"
    /\ send_response(pending[1])
    /\ UNCHANGED <<options, states, closed, configured>>

\* The suspended send of point() is woken: the channel has room or is closed.
send_response_wake ==
    /\ pc = "send"
    /\ closed \/ HasRoom(chan)
    /\ send_response(pending[1])
    /\ UNCHANGED <<options, states, closed, configured>>

\* stop(): lock the sender and close the channel (close() does not suspend:
\* the guard is taken, the channel closed and the guard dropped in one
\* step); when another task holds the mutex, stop() suspends in lock().
stop ==
    /\ pc = "idle"
    /\ IF mutex = "free"
       THEN /\ closed' = TRUE
            /\ ret' = Ret("stop", TRUE, "")
            /\ UNCHANGED pc
       ELSE /\ pc' = "stop"
            /\ UNCHANGED <<closed, ret>>
    /\ UNCHANGED <<options, states, mutex, chan, pending, configured>>

\* The suspended lock() of stop() is woken: the mutex is free, the channel is
\* closed and stop() returns.
stop_locked ==
    /\ pc = "stop"
    /\ mutex = "free"
    /\ closed' = TRUE
    /\ pc' = "idle"
    /\ ret' = Ret("stop", TRUE, "")
    /\ UNCHANGED <<options, states, mutex, chan, pending, configured>>

\* ------------------------------------------- another holder of the sender

\* The Response the other task sends (not a point of the handler).
OtherResponse == [tags |-> Tag("from", "other"), fields_double |-> NoFields]

\* The other task from the moment it holds the guard, as send_response: a
\* closed channel fails the send, a channel with room takes the response, a
\* full channel keeps the task suspended with the guard held.
other_send_response ==
    IF closed
    THEN /\ other' = [pc |-> "idle", ret |-> "err"]
         /\ mutex' = "free"
         /\ UNCHANGED chan
    ELSE IF HasRoom(chan)
    THEN /\ chan' = Append(chan, OtherResponse)
         /\ other' = [pc |-> "idle", ret |-> "ok"]
         /\ mutex' = "free"
    ELSE /\ other' = [other EXCEPT !.pc = "send"]
         /\ mutex' = "other"
         /\ UNCHANGED chan

\* The other task sending without the lock (through a Sender cloned out of
\* the mutex).
other_send_unlocked ==
    /\ other.pc = "idle"
    /\ other_send_response
    /\ UNCHANGED <<options, states, closed, pc, pending, ret, configured>>

\* The other task starts responses.lock().await.send(r).await.
other_send ==
    /\ other.pc = "idle"
    /\ IF mutex = "free"
       THEN other_send_response
       ELSE /\ other' = [other EXCEPT !.pc = "lock"]
            /\ UNCHANGED <<mutex, chan>>
    /\ UNCHANGED <<options, states, closed, pc, pending, ret, configured>>

\* The other task's suspended lock() is woken.
other_locked ==
    /\ other.pc = "lock"
    /\ mutex = "free"
    /\ other_send_response
    /\ UNCHANGED <<options, states, closed, pc, pending, ret, configured>>

\* The other task's suspended send is woken.
other_wake ==
    /\ other.pc = "send"
    /\ closed \/ HasRoom(chan)
    /\ other_send_response
    /\ UNCHANGED <<options, states, closed, pc, pending, ret, configured>>

\* ------------------------------------------------------------------ host

\* The host's receiving end takes the oldest queued Response.
recv ==
    /\ chan # <<>>
    /\ chan' = Tail(chan)
    /\ UNCHANGED <<options, states, mutex, closed, pc, pending, ret, configured>>

\* The blobs the host hands to restore: the snapshot it has just been given,
\* one it kept from an earlier run, or garbage.
RestoreRequests ==
    {Malformed} \cup {Encode(t) : t \in SavedTables}
        \cup {ret.snapshot[i] : i \in 1..Len(ret.snapshot)}

\* The table has folded fewer than n observations.
Within(n) == TotalCount(states) < n

\* A step of the handler or of the receiver alone: the other task does not
\* move, the host puts no snapshot aside and nothing is recorded.
Alone == UNCHANGED <<other, kept, hist, delivered>>

\* The handler driven by a host that calls it sequentially, hands back only
\* the snapshot it has just been given, and shares the sender with nobody.

Next ==
    \/ info /\ Alone
    \/ \E raw \in RawOptions : init(raw) /\ Alone
    \/ snapshot /\ Alone
    \/ \E blob \in RestoreRequests : restore(blob) /\ Alone
    \/ begin_batch /\ Alone
    \/ \E p \in Points : Within(MaxCount) /\ point(p) /\ Alone
    \/ send_response_wake /\ Alone
    \/ end_batch /\ Alone
    \/ stop /\ Alone
    \/ recv /\ Alone

Spec == Init /\ [][Next]_vars

\* ------------------------------------------------- the stream, recorded

\* Largest number of observations recorded in hist.
MaxFold == 4

FoldPeriods == {1, 2, 3}

\* Configurations of the recorded stream: every type with every period.
FoldOptions == {Options(p, ty) : p \in FoldPeriods, ty \in {EMA, SMA}}

\* Points of the recorded stream: X with the prices 1..4, Y with the price
\* 4, and a point without the "price" field.
FoldPoints ==
    {[tags |-> Tag("t", "X"), fields_double |-> Field("price", Fin(v, 1))] :
        v \in {1, 2, 3, 4}}
    \cup {[tags |-> Tag("t", "Y"), fields_double |-> Field("price", Fin(4, 1))],
          [tags |-> Tag("t", "Y"), fields_double |-> Field("volume", Fin(1, 1))]}

\* point(p), recorded: when p passes the two lookups, hist gets the key, the
\* input, the value calculate_indicator returned and how the call ended
\* ("ok", "err", or "wait" while the send is suspended).
observe(p) ==
    /\ point(p)
    /\ LET ticker == get_ticker(p, options)
           value == get_value(p, options)
       IN  IF ticker = None \/ value = None
           THEN UNCHANGED hist
           ELSE hist' = Append(hist,
                    [key |-> ticker[1], value |-> value[1],
                     out |-> calculate_indicator(states, options,
                                                 ticker[1], value[1]).out,
                     res |-> IF pc' # "idle" THEN "wait"
                             ELSE IF ret'.ok THEN "ok" ELSE "err"])
    /\ UNCHANGED <<other, kept, delivered>>

\* send_response_wake, recorded: the last observation gets its result.
observe_wake ==
    /\ send_response_wake
    /\ hist' = [hist EXCEPT ![Len(hist)].res =
                    IF pc' # "idle" THEN "wait"
                    ELSE IF ret'.ok THEN "ok" ELSE "err"]
    /\ UNCHANGED <<other, kept, delivered>>

\* recv, recorded: the host keeps what it received.
deliver ==
    /\ recv
    /\ delivered' = Append(delivered, Head(chan))
    /\ UNCHANGED <<other, kept, hist>>

\* A handler created with any of the configurations, and a host that
\* streams points into it and takes the responses, with everything the
\* handler folds and emits recorded.
FoldInit == \E opts \in FoldOptions : new(opts)

FoldNext ==
    \/ \E p \in FoldPoints : Len(hist) < MaxFold /\ observe(p)
    \/ observe_wake
    \/ deliver

Fold == FoldInit /\ [][FoldNext]_vars

\* ------------------------------------------- the host keeping snapshots

\* Points of the host that keeps snapshots.
PersistPoints ==
    {[tags |-> Tag("t", "X"), fields_double |-> Field("price", Fin(1, 1))],
     [tags |-> Tag("t", "X"), fields_double |-> Field("price", Fin(3, 1))],
     [tags |-> Tag("t", "Y"), fields_double |-> Field("price", Fin(1, 1))],
     [tags |-> Tag("t", "X"), fields_double |-> Field("volume", Fin(1, 1))]}

\* The host puts the snapshot it has just been given aside.
keep ==
    /\ ret.op = "snapshot"
    /\ kept' = ret.snapshot
    /\ UNCHANGED <<options, states, mutex, chan, closed, pc, pending, ret,
                   configured, other, hist, delivered>>

\* A host that configures, streams, takes snapshots, keeps some and hands a
\* kept one (or garbage) back to restore at any later time.
PersistNext ==
    \/ \E raw \in RawOptions : init(raw) /\ Alone
    \/ snapshot /\ Alone
    \/ keep
    \/ \E blob \in {Malformed} \cup {kept[i] : i \in 1..Len(kept)} :
           restore(blob) /\ Alone
    \/ \E p \in PersistPoints : Within(MaxCount) /\ point(p) /\ Alone
    \/ send_response_wake /\ Alone
    \/ recv /\ Alone

Persist == Init /\ [][PersistNext]_vars

\* ------------------------------------------- every call, recorded

\* Points of the host that makes every call: X with the price 1, Y with the
\* price 3, X with the price NaN, and a point without tags and fields.
EmitPoints ==
    {[tags |-> Tag("t", "X"), fields_double |-> Field("price", Fin(1, 1))],
     [tags |-> Tag("t", "Y"), fields_double |-> Field("price", Fin(3, 1))],
     [tags |-> Tag("t", "X"), fields_double |-> Field("price", NaN)],
     [tags |-> NoTags, fields_double |-> NoFields]}

\* A host that makes every call of the Handler trait, with everything the
\* handler folds and emits and everything the host receives recorded.
EmitNext ==
    \/ info /\ Alone
    \/ \E raw \in RawOptions : init(raw) /\ Alone
    \/ snapshot /\ Alone
    \/ \E blob \in RestoreRequests : restore(blob) /\ Alone
    \/ begin_batch /\ Alone
    \/ \E p \in EmitPoints : Len(hist) < MaxCount /\ observe(p)
    \/ observe_wake
    \/ end_batch /\ Alone
    \/ stop /\ Alone
    \/ deliver

Emit == Init /\ [][EmitNext]_vars

\* ---------------------------------------------- the sender, shared

\* Points of the handler that shares the sender.
SharedPoints ==
    {[tags |-> Tag("t", k), fields_double |-> Field("price", Fin(1, 1))] :
        k \in Keys}

\* The handler, called sequentially by the host, and another task that
\* sends through a clone of the Arc<Mutex<Sender>>; the receiver takes
\* responses when it pleases.
SharedNext ==
    \/ \E p \in SharedPoints : Within(MaxCount) /\ point(p) /\ Alone
    \/ send_response_locked /\ Alone
    \/ send_response_wake /\ Alone
    \/ stop /\ Alone
    \/ stop_locked /\ Alone
    \/ other_send /\ UNCHANGED <<kept, hist, delivered>>
    \/ other_locked /\ UNCHANGED <<kept, hist, delivered>>
    \/ other_wake /\ UNCHANGED <<kept, hist, delivered>>
    \/ recv /\ Alone

Shared == Init /\ [][SharedNext]_vars

\* ------------------------------------------------------------------ claims

\* C1: init is atomic. When the options resolve, the new options replace the
\* old ones and the table becomes empty; when they do not, the options and
\* the whole table are what they were before the call and the response
\* carries success = false and a reason.
C1_InitAtomic ==
    [][\A raw \in RawOptions :
          (ret'.op = "init" /\ init(raw)) =>
              LET r == from_proto_options(raw)
              IN  IF r.ok
                  THEN /\ options' = r.options
                       /\ states' = EmptyStates
                       /\ ret'.ok
                  ELSE /\ options' = options
                       /\ states' = states
                       /\ ~ret'.ok /\ ret'.err # ""]_vars

\* A failed init has returned while the table holds entries.
C1_Witness ==
    /\ ret.op = "init" /\ ~ret.ok
    /\ states # EmptyStates
    /\ configured

\* C2: restore is all-or-nothing. When the blob decodes, the table is the
\* decoded one and its keys are the keys of the blob; when it does not, the
\* table is what it was and the response carries success = false and a
\* reason. The options are untouched either way.
C2_RestoreAllOrNothing ==
    [][\A blob \in RestoreRequests :
          (ret'.op = "restore" /\ restore(blob)) =>
              /\ options' = options
              /\ IF Decode(blob).ok
                 THEN /\ states' = Decode(blob).states
                      /\ DOMAIN states' = DOMAIN blob.states
                      /\ ret'.ok
                 ELSE /\ states' = states
                      /\ ~ret'.ok /\ ret'.err # ""]_vars

\* A restore has failed while the table holds entries.
C2_Witness ==
    /\ ret.op = "restore" /\ ~ret.ok
    /\ states # EmptyStates

\* C3: round-trip persistence. A restore of the blob the snapshot just before
\* it returned leaves the table equal to the one before the snapshot (and so
\* every later point of every key gets the output it would have got).
C3_RoundTrip ==
    [][(ret.op = "snapshot" /\ ret.snapshot # <<>> /\ restore(ret.snapshot[1]))
          => states' = states]_vars

\* C4: reconfiguration clears state. Once init has returned success, and
\* until the next call, the table tracks no key; and a point of a key the
\* table does not track is a cold start whatever its input: under EMA its
\* output is the raw input and the stored average is that input, under SMA
\* the window afterwards holds that one value only.
C4_ReconfigureColdStart ==
    /\ (ret.op = "init" /\ ret.ok /\ pc = "idle") => DOMAIN states = {}
    /\ \A k \in Keys \ DOMAIN states, v \in Inputs :
           LET r == calculate_indicator(states, options, k, v)
           IN  /\ r.states[k].count = 1
               /\ options.indicator_type = EMA =>
                      r.out = v /\ r.states[k].current_value = Some(v)
               /\ options.indicator_type = SMA => r.states[k].values = <<v>>

\* init has returned success after a point was processed: its response is
\* still queued.
C4_Witness ==
    /\ ret.op = "init" /\ ret.ok /\ pc = "idle"
    /\ chan # <<>>

\* C5: missing key field. A point whose tags lack options.ticker_field fails
\* with MissingTickerField, queues nothing and leaves the table (and the
\* options) as they were.
C5_MissingTicker ==
    [][\A p \in Points :
          (/\ ret'.op = "point"
           /\ options.ticker_field \notin DOMAIN p.tags
           /\ point(p)) =>
              /\ ret' = Ret("point", FALSE, "MissingTickerField")
              /\ states' = states /\ options' = options
              /\ chan' = chan /\ pending' = pending /\ pc' = "idle"]_vars

\* A point has failed with MissingTickerField while the table holds entries.
C5_Witness ==
    /\ ret.op = "point" /\ ret.err = "MissingTickerField"
    /\ states # EmptyStates

\* C6: invalid value field. A point that has the ticker tag and whose
\* fields_double lack options.field fails with InvalidFieldType, queues
\* nothing and leaves the table as it was: no entry appears for its key.
C6_InvalidField ==
    [][\A p \in Points :
          (/\ ret'.op = "point"
           /\ options.ticker_field \in DOMAIN p.tags
           /\ options.field \notin DOMAIN p.fields_double
           /\ point(p)) =>
              /\ ret' = Ret("point", FALSE, "InvalidFieldType")
              /\ states' = states
              /\ DOMAIN states' = DOMAIN states
              /\ chan' = chan /\ pending' = pending /\ pc' = "idle"]_vars

\* A point has failed with InvalidFieldType and the table tracks no key.
C6_Witness ==
    /\ ret.op = "point" /\ ret.err = "InvalidFieldType"
    /\ states = EmptyStates
    /\ configured

\* C7 as claimed: whenever point returns a failure, the table is what it was
\* before the call.
C7_FailureBeforeMutation ==
    [][\A p \in Points :
          (ret'.op = "point" /\ ~ret'.ok /\ pc' = "idle" /\ point(p)) => states' = states]_vars

\* C7 as amended: a point that fails with MissingTickerField or
\* InvalidFieldType leaves the table as it was before the call; a point that
\* fails with ResponseSendError (the channel is closed) has updated the table
\* first: the entry of its key is created or updated with its count one
\* higher, every other entry is as it was, and nothing is queued.
C7_FailureAndMutation ==
    [][\A p \in Points :
          (ret'.op = "point" /\ ~ret'.ok /\ pc' = "idle" /\ point(p)) =>
              \/ /\ ret'.err \in {"MissingTickerField", "InvalidFieldType"}
                 /\ states' = states
              \/ /\ ret'.err = "ResponseSendError"
                 /\ closed
                 /\ chan' = chan
                 /\ LET k == p.tags[options.ticker_field]
                    IN  /\ DOMAIN states' = DOMAIN states \cup {k}
                        /\ states'[k].count = Entry(states, k).count + 1
                        /\ \A j \in DOMAIN states \ {k} :
                               states'[j] = states[j]]_vars

\* A point has failed with ResponseSendError and the table holds entries.
C7_Witness ==
    /\ ret.op = "point" /\ ret.err = "ResponseSendError"
    /\ states # EmptyStates

\* C8 as claimed: once stop has run (the channel is closed), no init,
\* snapshot, restore or point both returns success and changes the options
\* or the table or yields a snapshot.
C8_StoppedTerminal ==
    [][(/\ Lifecycle = "Stopped"
        /\ \/ \E raw \in RawOptions : init(raw)
           \/ snapshot
           \/ \E blob \in RestoreRequests : restore(blob)
           \/ \E p \in Points : point(p)
           \/ send_response_wake)
          => ~(/\ ret'.ok
               /\ \/ options' # options
                  \/ states' # states
                  \/ ret'.snapshot # <<>>)]_vars

\* C9 as claimed: while no init has succeeded on the instance, a point
\* computes nothing: the table is untouched and no response is queued or
\* held for sending.
C9_IngestNeedsConfigured ==
    [][(Lifecycle = "Unconfigured" /\ \E p \in Points : point(p))
          => states' = states /\ chan' = chan /\ pending' = pending]_vars

\* C10: batch rejection. In every state begin_batch returns
\* Err(Unsupported) and end_batch returns Ok(()), and neither changes the
\* options or the table, queues a response, or closes the channel.
C10_BatchRejection ==
    [][/\ begin_batch => ret' = Ret("begin_batch", FALSE, "Unsupported")
       /\ end_batch => ret' = Ret("end_batch", TRUE, "")
       /\ (ret'.op \in {"begin_batch", "end_batch"} /\ ret' # ret) =>
              /\ options' = options /\ states' = states
              /\ chan' = chan /\ pending' = pending /\ closed' = closed]_vars

\* begin_batch has been rejected after stop, with entries in the table.
C10_Witness ==
    /\ ret.op = "begin_batch" /\ ~ret.ok
    /\ Lifecycle = "Stopped"
    /\ states # EmptyStates

\* The recorded observations of key k, oldest first.
Of(k) == SelectSeq(hist, LAMBDA e : e.key = k)

\* The inputs a..b of a sequence of observations.
Values(obs, a, b) == [i \in 1..(b - a + 1) |-> obs[a + i - 1].value]

\* The outputs of a sequence of observations.
Outputs(obs) == [i \in 1..Len(obs) |-> obs[i].out]

\* The arithmetic mean of a non-empty sequence.
Mean(s) == FDivInt(FSum(s), Len(s))

Min(a, b) == IF a < b THEN a ELSE b

\* C11: SMA fill behaviour. Under SMA with period p, the output of the i-th
\* observation of a key created on a fresh table is the raw input for i < p
\* and the arithmetic mean of the key's last p inputs for i >= p.
C11_SmaFill ==
    options.indicator_type = SMA =>
        \A k \in Keys :
            LET obs == Of(k)
                p == options.period
            IN  \A i \in 1..Len(obs) :
                    obs[i].out = IF i < p THEN obs[i].value
                                 ELSE Mean(Values(obs, i - p + 1, i))

\* Period 3 with the inputs 1, 2, 3, 4 of X has given the outputs 1, 2, 2, 3.
C11_Witness ==
    /\ options = Options(3, SMA)
    /\ Values(Of("X"), 1, Len(Of("X"))) =
           <<Fin(1, 1), Fin(2, 1), Fin(3, 1), Fin(4, 1)>>
    /\ Outputs(Of("X")) = <<Fin(1, 1), Fin(2, 1), Fin(2, 1), Fin(3, 1)>>
    /\ pc = "idle"

\* C12: EMA sequence. Under EMA with period p, the first output of a key
\* created on a fresh table is its input, every later output is
\* alpha * v + (1 - alpha) * e with e the key's previous output and
\* alpha = 2 / (p + 1), and the key's current_value is its last output.
C12_EmaSequence ==
    options.indicator_type = EMA =>
        \A k \in Keys :
            LET obs == Of(k)
                alpha == Fin(2, options.period + 1)
            IN  /\ \A i \in 1..Len(obs) :
                       obs[i].out =
                           IF i = 1 THEN obs[i].value
                           ELSE FAdd(FMul(alpha, obs[i].value),
                                     FMul(FAdd(Fin(1, 1), FMul(Fin(-1, 1), alpha)),
                                          obs[i - 1].out))
                /\ obs # <<>> =>
                       /\ k \in DOMAIN states
                       /\ states[k].current_value = Some(obs[Len(obs)].out)

\* Period 3: X has had the inputs 4, 1, 1 and its last output, 7/4, is none
\* of its inputs.
C12_Witness ==
    /\ options = Options(3, EMA)
    /\ Values(Of("X"), 1, Len(Of("X"))) = <<Fin(4, 1), Fin(1, 1), Fin(1, 1)>>
    /\ states["X"].current_value = Some(Fin(7, 4))
    /\ pc = "idle"

\* C13: SMA window bound. Under SMA, after n observations of a key since it
\* was created, the key's values are its last min(n, period) inputs in
\* arrival order (so their number is min(n, period)), and its count is n; a
\* key without observations has no entry.
C13_SmaWindow ==
    options.indicator_type = SMA =>
        \A k \in Keys :
            LET obs == Of(k)
                n == Len(obs)
                m == Min(n, options.period)
            IN  IF n = 0 THEN k \notin DOMAIN states
                ELSE /\ k \in DOMAIN states
                     /\ Len(states[k].values) = m
                     /\ states[k].values = Values(obs, n - m + 1, n)
                     /\ states[k].count = n

\* Period 2: X has had four inputs, the first two of which were evicted.
C13_Witness ==
    /\ options = Options(2, SMA)
    /\ Values(Of("X"), 1, Len(Of("X"))) =
           <<Fin(1, 1), Fin(2, 1), Fin(3, 1), Fin(4, 1)>>
    /\ states["X"].values = <<Fin(3, 1), Fin(4, 1)>>

\* C14 as claimed: in every reachable state every key's values sequence has
\* at most options.period elements.
C14_WindowWithinPeriod ==
    \A k \in DOMAIN states : Len(states[k].values) <= options.period

\* C16 as claimed: in every step, a key that has an entry before and after
\* has a count at least as high after as before.
C16_CountNeverDecreases ==
    [][\A k \in DOMAIN states \cap DOMAIN states' :
          states'[k].count >= states[k].count]_vars

\* C16 as amended: in every step other than a successful restore, a key that
\* has an entry before and after has a count at least as high after as
\* before; a successful restore gives every key the count recorded in the
\* blob, whatever the count it had.
C16_CountNeverDecreasesButRestore ==
    [][\/ \A k \in DOMAIN states \cap DOMAIN states' :
             states'[k].count >= states[k].count
       \/ /\ ret'.op = "restore" /\ ret'.ok
          /\ \E i \in 1..Len(kept) :
                 /\ restore(kept[i])
                 /\ Decode(kept[i]).ok
                 /\ \A k \in DOMAIN states' :
                        states'[k].count = kept[i].states[k].count]_vars

\* A restore has put X back to count 1 under SMA with period 2 while the
\* response of X's second observation (the mean 2 of 1 and 3) is still
\* queued.
C16_Witness ==
    /\ ret.op = "restore" /\ ret.ok
    /\ options = Options(2, SMA)
    /\ "X" \in DOMAIN states /\ states["X"].count = 1
    /\ chan = <<[tags |-> Tag("t", "X"),
                 fields_double |-> [n \in {"price", "ind"} |->
                     IF n = "price" THEN Fin(3, 1) ELSE Fin(2, 1)]]>>

\* C15 as claimed, for the send that is pending when stop() is called: once
\* stop() has been called while the other task's send is pending, stop() or
\* that send can take its next step (the lock or the failure) without the
\* receiver taking anything from the channel.
C15_StopNotBlocked ==
    (pc = "stop" /\ other.pc = "send") =>
        ENABLED (stop_locked \/ other_wake)

\* C17: in point, the table holds the whole update of the key before the
\* send is attempted: a point that leaves suspended (in lock() or in send())
\* leaves with the table calculate_indicator returned and the response built
\* from its value; no step taken while point is suspended, its resumption
\* included, changes the table; and the update does not wait for the mutex,
\* the only lock there is, which the suspended send holds around the sender.
C17_UpdateBeforeSend ==
    [][/\ \A p \in SharedPoints :
             (pc' \in {"lock", "send"} /\ point(p)) =>
                 LET r == calculate_indicator(states, options,
                                              p.tags[options.ticker_field],
                                              p.fields_double[options.field])
                 IN  /\ states' = r.states
                     /\ pending' = <<NewPoint(p, options, r.out)>>
                     /\ (pc' = "lock") = (mutex = "other")
       /\ pc \in {"lock", "send"} => states' = states
       /\ states' # states => pc = "idle"]_vars

\* point is suspended in send() with the guard held, the other task waits
\* for the mutex, and the table holds the entry of the pending response.
C17_Witness ==
    /\ pc = "send" /\ mutex = "handler" /\ other.pc = "lock"
    /\ pending # <<>>
    /\ pending[1].tags["t"] \in DOMAIN states

\* C18: mutual exclusion on the sender. At most one of the handler and the
\* other task is inside a send; the one inside is the holder of the mutex;
\* and the channel is closed (stop's close) only in a step that starts with
\* nobody inside a send.
C18_OneWriter ==
    [][/\ ~(pc' = "send" /\ other'.pc = "send")
       /\ (pc' = "send") = (mutex' = "handler")
       /\ (other'.pc = "send") = (mutex' = "other")
       /\ closed' # closed => (pc # "send" /\ other.pc # "send")]_vars

\* The other task is inside a send while point waits for the mutex.
C18_Witness ==
    /\ other.pc = "send" /\ mutex = "other"
    /\ pc = "lock"

\* The run of calculate_indicator over the inputs ins of key k alone, from an
\* empty table: the table afterwards and the outputs.
RECURSIVE Solo(_, _, _)
Solo(opts, k, ins) ==
    IF ins = <<>> THEN [states |-> EmptyStates, outs |-> <<>>]
    ELSE LET prev == Solo(opts, k, SubSeq(ins, 1, Len(ins) - 1))
             r == calculate_indicator(prev.states, opts, k, ins[Len(ins)])
         IN  [states |-> r.states, outs |-> Append(prev.outs, r.out)]

\* C19: per-key isolation. Whatever points of other keys are interleaved,
\* the outputs of a key and its entry are those of a run over the key's own
\* inputs alone (so a point of one key leaves every other entry as it was),
\* and a key without observations has no entry.
C19_PerKeyIsolation ==
    \A k \in Keys :
        LET obs == Of(k)
            solo == Solo(options, k, Values(obs, 1, Len(obs)))
        IN  /\ Outputs(obs) = solo.outs
            /\ IF obs = <<>> THEN k \notin DOMAIN states
               ELSE k \in DOMAIN states /\ states[k] = solo.states[k]

\* Under EMA with period 2, a point of Y has come between two points of X.
C19_Witness ==
    /\ options = Options(2, EMA)
    /\ Len(hist) = 3
    /\ hist[1].key = "X" /\ hist[2].key = "Y" /\ hist[3].key = "X"
    /\ hist[1].value # hist[2].value
    /\ pc = "idle"

\* The augmented record of a recorded observation.
Record(e) ==
    [tags |-> Tag("t", e.key),
     fields_double |-> [n \in {"price", "ind"} |->
                           IF n = "price" THEN e.value ELSE e.out]]

\* The observations whose point returned Ok(()), in the order of the calls.
Succeeded == SelectSeq(hist, LAMBDA e : e.res = "ok")

\* C20: emission accounting. The records the channel has been given (those
\* the host has received followed by those still queued) are exactly the
\* augmented records of the points that returned success, one each, in the
\* order of the calls: no other call and no failed point adds a record. A
\* point that has not returned yet is the last one and holds its record.
C20_EmissionAccounting ==
    /\ delivered \o chan = [i \in 1..Len(Succeeded) |-> Record(Succeeded[i])]
    /\ \A i \in 1..Len(hist) :
           hist[i].res = "wait" =>
               /\ i = Len(hist)
               /\ pc = "send"
               /\ pending = <<Record(hist[i])>>
    /\ pc = "idle" => pending = <<>>

\* Two points have returned success, X's and then Y's: the host has received
\* the record of X, the record of Y is still queued, and stop has returned
\* since.
C20_Witness ==
    /\ Len(Succeeded) = 2
    /\ Len(delivered) = 1 /\ delivered[1].tags["t"] = "X"
    /\ Len(chan) = 1 /\ chan[1].tags["t"] = "Y"
    /\ ret.op = "stop" /\ closed

=============================================================================
